---------------------------- MODULE Spec2Model ----------------------------
(***************************************************************************)
(* Recon.py: an interactive menu that validates a target, remembers it in  *)
(* .last_target, launches nmap as a child process and, line by line, logs  *)
(* and classifies the child's merged output while tracking its progress.   *)
(*                                                                         *)
(* Text is modelled as a sequence of atoms.  An atom is one character      *)
(* ("4", ".", "/", " ") or one of the literal tokens the regular           *)
(* expressions and substring tests of run_scan look for ("% done", "tcp",  *)
(* "udp", "OS details:", "Service Info:", "|", "Stats:"); "x" stands for   *)
(* any other character.  Numbers are kept exact: a parsed percentage is    *)
(* held in units of 10^-FracDigits.                                        *)
(***************************************************************************)
EXTENDS Integers, Sequences, FiniteSets, TLC

VARIABLES
    pc,           \* where the main loop is: menu, explain, prompt, reading, wait, ack, exited, crashed
    clock,        \* int(time.time()), in seconds since the session began
    store,        \* the file .last_target
    last_ip,      \* menu's local last_ip: <<>> is None, <<s>> is the string s
    ip,           \* menu's local ip
    files,        \* the log files of the working directory: name -> lines written
    launches,     \* the log filename of every child process started, in order
    command,      \* run_scan's local command
    log_filename, \* run_scan's local log_filename
    progress,     \* task.completed of the rich progress task, in units of 10^-FracDigits
    childState,   \* the child process: none, running, closed (stdout closed), exited
    childCode,    \* the exit status the child ended with
    pipe,         \* lines the child has written and the parent has not read yet
    emitted,      \* every line the child of this invocation has written
    consumed,     \* every line the for loop of this invocation has taken
    display,      \* what console.print rendered since the last console.clear()
    outcome,      \* the final report of run_scan: none, success, failure
    choice,       \* menu's local choice
    events,       \* what the current call of menu() did, in order
    budget        \* lines the children of this session may still write

vars == <<pc, clock, store, last_ip, ip, files, launches, command, log_filename,
          progress, childState, childCode, pipe, emitted, consumed, display,
          outcome, choice, events, budget>>

---------------------------------------------------------------------------
(* Bounds of the model. *)

\* lines all child processes of a session write in total
MaxEmitted == 2
\* calls of run_scan in a session
MaxScans == 2
\* seconds the session lasts
MaxTime == 2
\* digits kept after the decimal point of a percentage
FracDigits == 2

---------------------------------------------------------------------------
(* Text. *)

Digits == {"0", "1", "2", "3", "4", "5", "6", "7", "8", "9"}

DigitVal(d) ==
    CASE d = "0" -> 0 [] d = "1" -> 1 [] d = "2" -> 2 [] d = "3" -> 3
      [] d = "4" -> 4 [] d = "5" -> 5 [] d = "6" -> 6 [] d = "7" -> 7
      [] d = "8" -> 8 [] d = "9" -> 9

Whitespace == {" ", "<tab>"}

RECURSIVE Pow10(_)
Pow10(n) == IF n = 0 THEN 1 ELSE 10 * Pow10(n - 1)

\* int(s) of a string of digits
RECURSIVE ToInt(_)
ToInt(s) ==
    IF s = <<>> THEN 0
    ELSE 10 * ToInt(SubSeq(s, 1, Len(s) - 1)) + DigitVal(s[Len(s)])

AllDigits(s) == \A i \in 1..Len(s) : s[i] \in Digits

\* str.strip(): leading and trailing whitespace removed
RECURSIVE Strip(_)
Strip(s) ==
    IF s = <<>> THEN s
    ELSE IF s[1] \in Whitespace THEN Strip(Tail(s))
    ELSE IF s[Len(s)] \in Whitespace THEN Strip(SubSeq(s, 1, Len(s) - 1))
    ELSE s

\* str.lower()
LowerAtom(a) ==
    CASE a = "R" -> "r" [] a = "X" -> "x" [] a = "E" -> "e" [] OTHER -> a

Lower(s) == [i \in 1..Len(s) |-> LowerAtom(s[i])]

\* str.replace(old, new) for one-atom old and new
Replace(s, old, new) == [i \in 1..Len(s) |-> IF s[i] = old THEN new ELSE s[i]]

\* str.split(sep)
RECURSIVE Split(_, _)
Split(s, sep) ==
    IF \A i \in 1..Len(s) : s[i] # sep THEN <<s>>
    ELSE LET k == CHOOSE i \in 1..Len(s) :
                     s[i] = sep /\ \A j \in 1..(i - 1) : s[j] # sep
         IN  <<SubSeq(s, 1, k - 1)>> \o Split(SubSeq(s, k + 1, Len(s)), sep)

Contains(s, a) == \E i \in 1..Len(s) : s[i] = a

\* the first position from i on that holds no digit
RECURSIVE DigitRunEnd(_, _)
DigitRunEnd(s, i) ==
    IF i > Len(s) \/ s[i] \notin Digits THEN i ELSE DigitRunEnd(s, i + 1)

---------------------------------------------------------------------------
(* The standard library calls of validate_ip, for IPv4 text. *)

IsOctet(p) ==
    /\ p # <<>>
    /\ AllDigits(p)
    /\ Len(p) <= 3
    /\ (Len(p) > 1 => p[1] # "0")
    /\ ToInt(p) <= 255

\* ipaddress.ip_address(s) does not raise ValueError
ip_address(s) ==
    LET parts == Split(s, ".")
    IN  Len(parts) = 4 /\ \A i \in 1..4 : IsOctet(parts[i])

\* ipaddress.ip_network(s, strict=False) does not raise ValueError
ip_network(s) ==
    LET parts == Split(s, "/")
    IN  /\ Len(parts) = 2
        /\ ip_address(parts[1])
        /\ parts[2] # <<>>
        /\ AllDigits(parts[2])
        /\ ToInt(parts[2]) <= 32

validate_ip(tgt) ==
    IF Contains(tgt, "/") THEN ip_network(tgt) ELSE ip_address(tgt)

---------------------------------------------------------------------------
(* Scan definitions. *)

SCANS ==
    [k \in {"1", "2", "3", "4", "5", "6"} |->
        CASE k = "1" -> [name |-> "Host Discovery (Ping Scan)", command |-> <<"nmap", "-sn">>]
          [] k = "2" -> [name |-> "Quick Port Scan", command |-> <<"nmap">>]
          [] k = "3" -> [name |-> "Full Port Scan", command |-> <<"nmap", "-p-">>]
          [] k = "4" -> [name |-> "Service & Version Detection", command |-> <<"nmap", "-sV", "-sC">>]
          [] k = "5" -> [name |-> "OS Detection", command |-> <<"nmap", "-O">>]
          [] k = "6" -> [name |-> "Stealth Mode (SYN Scan)", command |-> <<"nmap", "-sS", "-Pn">>]]

\* choice in SCANS
InScans(c) == Len(c) = 1 /\ c[1] \in DOMAIN SCANS

---------------------------------------------------------------------------
(* The last-target file. *)

None == <<>>
Some(x) == <<x>>

\* `if last_ip`: neither None nor the empty string
Truthy(opt) == opt # None /\ opt[1] # <<>>

NoStore == [exists |-> FALSE, readable |-> TRUE, content |-> <<>>]

\* os.path.exists(LAST_IP_FILE) holds and open(LAST_IP_FILE, "r") raises
LoadRaises(st) == st.exists /\ ~st.readable

load_last_ip(st) == IF st.exists THEN Some(Strip(st.content)) ELSE None

save_last_ip(st, tgt) == [exists |-> TRUE, readable |-> TRUE, content |-> tgt]

---------------------------------------------------------------------------
(* run_scan: the log filename, the percentage scale, the line classifier. *)

\* f"scan_{target.replace('/', '_')}_{int(time.time())}.txt"
LogFilename(target, now) == [target |-> Replace(target, "/", "_"), stamp |-> now]

Scale == Pow10(FracDigits)

\* total=100 of the progress task, and completed=100 at the end
Total == 100

Hundred == Total * Scale

\* re.search(r"(\d+\.\d+)% done", s) matches with group 1 starting at i
MarkerAt(s, i) ==
    /\ i <= Len(s)
    /\ s[i] \in Digits
    /\ LET j == DigitRunEnd(s, i)
       IN  /\ j + 1 <= Len(s)
           /\ s[j] = "."
           /\ s[j + 1] \in Digits
           /\ LET k == DigitRunEnd(s, j + 1)
              IN  k <= Len(s) /\ s[k] = "% done"

\* float(match.group(1)) for the match that starts at i
MarkerValue(s, i) ==
    LET j == DigitRunEnd(s, i)
        k == DigitRunEnd(s, j + 1)
        frac == SubSeq(s, j + 1, k - 1)
    IN  ToInt(SubSeq(s, i, j - 1)) * Scale
            + ToInt(frac) * Pow10(FracDigits - Len(frac))

\* match = re.search(...): None, or the parsed percent of the leftmost match
ProgressMatch(s) ==
    IF \E i \in 1..Len(s) : MarkerAt(s, i)
    THEN LET i == CHOOSE i \in 1..Len(s) :
                      MarkerAt(s, i) /\ \A h \in 1..(i - 1) : ~MarkerAt(s, h)
         IN  Some(MarkerValue(s, i))
    ELSE None

\* re.match(r"^\d+/(tcp|udp)", s)
PortMatch(s) ==
    /\ s # <<>>
    /\ s[1] \in Digits
    /\ LET j == DigitRunEnd(s, 1)
       IN  /\ j + 1 <= Len(s)
           /\ s[j] = "/"
           /\ s[j + 1] \in {"tcp", "udp"}

Shown(style, line) == <<[style |-> style, text |-> line]>>

\* a slip: the write placed after the progress branch, which `continue`s past it
LogAfterLine_SkipMarker(content, clean) ==
    IF ProgressMatch(clean) # None THEN content ELSE Append(content, clean)

\* log_file.write(clean_line + "\n")
LogAfterLine(content, clean) == Append(content, clean)

\* a slip: the progress only ever advanced
ProgressAfterLine_KeepMax(cur, clean) ==
    IF ProgressMatch(clean) # None /\ ProgressMatch(clean)[1] > cur
    THEN ProgressMatch(clean)[1]
    ELSE cur

\* the progress branch: progress.update(task, completed=percent)
ProgressAfterLine(cur, clean) ==
    IF ProgressMatch(clean) # None THEN ProgressMatch(clean)[1] ELSE cur

\* a slip: the Stats: filter tested before the highlighting rules
RenderLine_StatsFirst(clean) ==
    IF Contains(clean, "Stats:") THEN <<>>
    ELSE IF PortMatch(clean) THEN Shown("port_found", clean)
    ELSE IF Contains(clean, "OS details:") \/ Contains(clean, "Service Info:")
         THEN Shown("detail", clean)
    ELSE IF clean[1] = "|" THEN Shown("script", clean)
    ELSE Shown("dim", clean)

\* a slip: the Stats: filter of the else branch left out
RenderLine_NoFilter(clean) ==
    IF PortMatch(clean) THEN Shown("port_found", clean)
    ELSE IF Contains(clean, "OS details:") \/ Contains(clean, "Service Info:")
         THEN Shown("detail", clean)
    ELSE IF clean[1] = "|" THEN Shown("script", clean)
    ELSE Shown("dim", clean)

\* the if / elif / else chain that prints a line which is no progress marker
RenderLine(clean) ==
    IF PortMatch(clean) THEN Shown("port_found", clean)
    ELSE IF Contains(clean, "OS details:") \/ Contains(clean, "Service Info:")
         THEN Shown("detail", clean)
    ELSE IF clean[1] = "|" THEN Shown("script", clean)
    ELSE IF ~Contains(clean, "Stats:") THEN Shown("dim", clean)
    ELSE <<>>

\* what the loop body prints for one non-empty line
DisplayAfterLine(disp, clean) ==
    IF ProgressMatch(clean) # None THEN disp ELSE disp \o RenderLine(clean)

\* a slip: the progress completed only when the scan succeeded
FinalProgress_OnlyOnSuccess(cur, code) == IF code = 0 THEN Hundred ELSE cur

\* progress.update(task, completed=100) after process.wait()
FinalProgress(cur, code) == Hundred

\* the report after the progress display is closed
Outcome(code) == IF code # 0 THEN "failure" ELSE "success"

---------------------------------------------------------------------------
(* menu: the decisions between the target prompt and run_scan. *)

\* the target: the stored one on 'r' when there is one, else what was typed
ChosenTarget(target_input, last) ==
    IF Lower(target_input) = <<"r">> /\ Truthy(last) THEN last[1] ELSE target_input

\* a slip: the target saved before it is validated
StoreAfterTarget_SaveFirst(st, tgt) == save_last_ip(st, tgt)

\* .last_target after the validation and the save that follows it
StoreAfterTarget(st, tgt) == IF validate_ip(tgt) THEN save_last_ip(st, tgt) ELSE st

\* check_nmap(): shutil.which("nmap") found the tool
check_nmap(found) == found

\* a slip: the result of check_nmap() ignored
MayEnterRunner_IgnoreLookup(tgt, found) == validate_ip(tgt)

\* run_scan is called
MayEnterRunner(tgt, found) == validate_ip(tgt) /\ check_nmap(found)

---------------------------------------------------------------------------
(* Inputs. *)

ChoiceInputs == {<<"x">>, <<" ", "X">>, <<"e">>, <<"4">>, <<"9">>}

Addr == <<"1", "0", ".", "0", ".", "0", ".", "1">>
Net == <<"1", "0", ".", "0", ".", "0", ".", "0", "/", "2", "4">>
BadOctet == <<"9", "9", "9", ".", "1", ".", "1", ".", "1">>
BadPrefix == <<"1", "0", ".", "0", ".", "0", ".", "0", "/", "3", "3">>
NotAnIp == <<"x", "-", "x">>

TargetInputs == {Addr, <<" ">> \o Net, BadOctet, BadPrefix, NotAnIp, <<"r">>, <<"R", " ">>}

\* .last_target when the session starts: absent, left by an earlier session,
\* edited by hand, or not readable by this user
InitStores ==
    { NoStore,
      [exists |-> TRUE, readable |-> TRUE, content |-> Addr],
      [exists |-> TRUE, readable |-> TRUE, content |-> NotAnIp \o <<" ">>],
      [exists |-> TRUE, readable |-> FALSE, content |-> Addr] }

\* lines a child may write (without the line terminator)
Lines ==
    { <<"4", "5", ".", "0", "0", "% done">>,
      <<"x", " ", "1", "5", "0", ".", "5", "% done", " ", "x">>,
      <<"8", "/", "udp", " ", "1", ".", "2", ".", "5", "% done">>,
      <<"4", "% done">>,
      <<"8", "0", "/", "tcp", " ", "x">>,
      <<" ", "2", "2", "/", "tcp", "Stats:">>,
      <<"x", "8", "0", "/", "tcp">>,
      <<"OS details:", " ", "x">>,
      <<"|", "Service Info:">>,
      <<"x", "Service Info:", "Stats:">>,
      <<"|", " ", "x">>,
      <<"|", "Stats:">>,
      <<"Stats:", " ", "x">>,
      <<"<tab>", "x", " ", "x", " ">>,
      <<" ", "<tab>">>,
      <<>> }

\* the line the children write when a whole session is explored
SessionLines ==
    { <<"4", "5", ".", "0", "0", "% done">> }

\* the answers given when a single scan is explored
ScanChoices == {<<"4">>}

ScanTargets == {Addr, <<" ">> \o Net}

ExitCodes == {0, 1}

---------------------------------------------------------------------------
(* The state after start-up: the main loop is about to call menu(). *)

NoFiles == [n \in {} |-> <<>>]

Init ==
    /\ pc = "menu"
    /\ clock = 0
    /\ store \in InitStores
    /\ last_ip = None
    /\ ip = <<>>
    /\ files = NoFiles
    /\ launches = <<>>
    /\ command = None
    /\ log_filename = None
    /\ progress = 0
    /\ childState = "none"
    /\ childCode = 0
    /\ pipe = <<>>
    /\ emitted = <<>>
    /\ consumed = <<>>
    /\ display = <<>>
    /\ outcome = "none"
    /\ choice = <<>>
    /\ events = <<>>
    /\ budget = MaxEmitted

runVars == <<files, launches, command, log_filename, progress, childState,
             childCode, pipe, emitted, consumed, outcome, budget>>

---------------------------------------------------------------------------
(* menu(), from console.clear() to the target prompt (or to its return). *)

MenuSelect(choice_input) ==
    LET c == Lower(Strip(choice_input))
    IN  /\ pc = "menu"
        /\ choice' = c
        /\ ip' = <<>>
        /\ display' = <<>>
        /\ IF c = <<"x">>
           THEN /\ pc' = "exited"
                /\ events' = <<"exit">>
                /\ UNCHANGED <<last_ip, clock>>
           ELSE IF c = <<"e">>
           THEN /\ pc' = "explain"
                /\ events' = <<>>
                /\ UNCHANGED <<last_ip, clock>>
           ELSE IF InScans(c)
           THEN IF LoadRaises(store)
                THEN /\ pc' = "crashed"
                     /\ events' = <<"load_raised">>
                     /\ UNCHANGED <<last_ip, clock>>
                ELSE /\ pc' = "prompt"
                     /\ last_ip' = load_last_ip(store)
                     /\ events' = <<>>
                     /\ UNCHANGED clock
           ELSE /\ clock + 1 <= MaxTime
                /\ clock' = clock + 1
                /\ pc' = "menu"
                /\ events' = <<"invalid_selection">>
                /\ UNCHANGED last_ip
        /\ UNCHANGED <<store, runVars>>

(* menu(), from the answer to the target prompt on, and run_scan up to its *)
(* read loop: validation, save, path lookup, Popen, open of the log.       *)
EnterTarget(target_input, found, spawnOK, openOK) ==
    LET tgt == ChosenTarget(Strip(target_input), last_ip)
        lookup == IF check_nmap(found) THEN "lookup_ok" ELSE "lookup_failed"
        name == LogFilename(tgt, clock)
    IN  /\ pc = "prompt"
        /\ store' = StoreAfterTarget(store, tgt)
        /\ last_ip' = None
        /\ ip' = tgt
        /\ UNCHANGED <<choice, display>>
        /\ IF ~validate_ip(tgt)
           THEN /\ clock + 2 <= MaxTime
                /\ clock' = clock + 2
                /\ pc' = "menu"
                /\ events' = <<"invalid_target">>
                /\ UNCHANGED runVars
           ELSE IF ~MayEnterRunner(tgt, found)
           THEN /\ pc' = "menu"
                /\ events' = <<"validated", "saved", lookup>>
                /\ UNCHANGED <<clock, runVars>>
           ELSE /\ Len(launches) < MaxScans
                /\ command' = Some([args |-> SCANS[choice[1]].command
                                                \o <<"--stats-every", "3s">>,
                                    target |-> tgt])
                /\ log_filename' = Some(name)
                /\ progress' = 0
                /\ pipe' = <<>>
                /\ emitted' = <<>>
                /\ consumed' = <<>>
                /\ outcome' = "none"
                /\ childCode' = 0
                /\ UNCHANGED <<clock, budget>>
                /\ IF ~spawnOK
                   THEN /\ pc' = "crashed"
                        /\ events' = <<"validated", "saved", lookup, "popen_raised">>
                        /\ childState' = "none"
                        /\ UNCHANGED <<launches, files>>
                   ELSE /\ launches' = Append(launches, name)
                        /\ childState' = "running"
                        /\ IF ~openOK
                           THEN /\ pc' = "crashed"
                                /\ events' = <<"validated", "saved", lookup,
                                               "launched", "open_raised">>
                                /\ UNCHANGED files
                           ELSE /\ pc' = "reading"
                                /\ events' = <<"validated", "saved", lookup,
                                               "launched", "log_created">>
                                /\ files' = (name :> <<>>) @@ files

---------------------------------------------------------------------------
(* The child process. *)

ChildEmit(line) ==
    /\ pc \in {"reading", "wait"}
    /\ childState = "running"
    /\ budget > 0
    /\ budget' = budget - 1
    /\ pipe' = Append(pipe, line)
    /\ emitted' = Append(emitted, line)
    /\ UNCHANGED <<pc, clock, store, last_ip, ip, files, launches, command,
                   log_filename, progress, childState, childCode, consumed,
                   display, outcome, choice, events>>

ChildClose ==
    /\ pc \in {"reading", "wait"}
    /\ childState = "running"
    /\ childState' = "closed"
    /\ UNCHANGED <<pc, clock, store, last_ip, ip, files, launches, command,
                   log_filename, progress, childCode, pipe, emitted, consumed,
                   display, outcome, choice, events, budget>>

ChildExit(code) ==
    /\ pc \in {"reading", "wait"}
    /\ childState = "closed"
    /\ childState' = "exited"
    /\ childCode' = code
    /\ UNCHANGED <<pc, clock, store, last_ip, ip, files, launches, command,
                   log_filename, progress, pipe, emitted, consumed,
                   display, outcome, choice, events, budget>>

---------------------------------------------------------------------------
(* run_scan: the read loop and what follows it. *)

\* one pass of `for line in process.stdout`
ReadLine(writeOK) ==
    LET line == Head(pipe)
        clean == Strip(line)
        name == log_filename[1]
    IN  /\ pc = "reading"
        /\ pipe # <<>>
        /\ pipe' = Tail(pipe)
        /\ consumed' = Append(consumed, line)
        /\ IF clean = <<>>
           THEN UNCHANGED <<pc, files, progress, display>>
           ELSE IF ~writeOK
           THEN /\ pc' = "crashed"
                /\ UNCHANGED <<files, progress, display>>
           ELSE /\ files' = [files EXCEPT ![name] = LogAfterLine(@, clean)]
                /\ progress' = ProgressAfterLine(progress, clean)
                /\ display' = DisplayAfterLine(display, clean)
                /\ UNCHANGED pc
        /\ UNCHANGED <<clock, store, last_ip, ip, launches, command, log_filename,
                       childState, childCode, emitted, outcome, choice, events,
                       budget>>

\* the loop ends: the child has closed its output and all of it was read
ReadEOF ==
    /\ pc = "reading"
    /\ pipe = <<>>
    /\ childState \in {"closed", "exited"}
    /\ pc' = "wait"
    /\ UNCHANGED <<clock, store, last_ip, ip, files, launches, command,
                   log_filename, progress, childState, childCode, pipe, emitted,
                   consumed, display, outcome, choice, events, budget>>

\* process.wait() returns; the progress is completed, the outcome reported
WaitDone ==
    /\ pc = "wait"
    /\ childState = "exited"
    /\ progress' = FinalProgress(progress, childCode)
    /\ outcome' = Outcome(childCode)
    /\ pc' = "ack"
    /\ UNCHANGED <<clock, store, last_ip, ip, files, launches, command,
                   log_filename, childState, childCode, pipe, emitted,
                   consumed, display, choice, events, budget>>

\* input("Press Enter to return to menu...") returns, after a scan or explain_scans:
\* the locals of run_scan and menu are gone, the next menu() clears the console
PressEnter ==
    /\ pc \in {"ack", "explain"}
    /\ pc' = "menu"
    /\ display' = <<>>
    /\ choice' = <<>>
    /\ command' = None
    /\ log_filename' = None
    /\ progress' = 0
    /\ childState' = "none"
    /\ childCode' = 0
    /\ emitted' = <<>>
    /\ consumed' = <<>>
    /\ outcome' = "none"
    /\ ip' = <<>>
    /\ events' = <<>>
    /\ UNCHANGED <<clock, store, last_ip, files, launches, pipe, budget>>

\* A second passes.  The clock is read by run_scan's first line alone, and
\* the menu prompt is reached between any two such reads: the seconds that
\* pass elsewhere are counted there.
Tick ==
    /\ pc = "menu"
    /\ clock < MaxTime
    /\ clock' = clock + 1
    /\ UNCHANGED <<pc, store, last_ip, ip, display, choice, events, runVars>>

(* A session: every answer at the prompts, any number of menu steps, the *)
(* children writing lines of SessionLines.                                *)
Next ==
    \/ \E c \in ChoiceInputs : MenuSelect(c)
    \/ \E t \in TargetInputs, found, spawnOK, openOK \in BOOLEAN :
          EnterTarget(t, found, spawnOK, openOK)
    \/ \E line \in SessionLines : ChildEmit(line)
    \/ ChildClose
    \/ \E code \in ExitCodes : ChildExit(code)
    \/ \E writeOK \in BOOLEAN : ReadLine(writeOK)
    \/ ReadEOF
    \/ WaitDone
    \/ PressEnter
    \/ Tick

Spec == Init /\ [][Next]_vars

(* One scan, from the first menu to the end of run_scan: a scan is chosen, *)
(* a valid target typed, and the child writes any lines of Lines.          *)
ScanNext ==
    \/ \E c \in ScanChoices : MenuSelect(c)
    \/ \E t \in ScanTargets, found, spawnOK, openOK \in BOOLEAN :
          EnterTarget(t, found, spawnOK, openOK)
    \/ \E line \in Lines : ChildEmit(line)
    \/ ChildClose
    \/ \E code \in ExitCodes : ChildExit(code)
    \/ \E writeOK \in BOOLEAN : ReadLine(writeOK)
    \/ ReadEOF
    \/ WaitDone

ScanSpec == Init /\ [][ScanNext]_vars

\* The parent is a single thread that never yields: each of its steps that
\* can be taken is taken.  Nothing is assumed of the child or of the user.
FairScanSpec ==
    /\ ScanSpec
    /\ WF_vars(\E writeOK \in BOOLEAN : ReadLine(writeOK))
    /\ WF_vars(ReadEOF)
    /\ WF_vars(WaitDone)

---------------------------------------------------------------------------
(* What the properties below speak of. *)

\* run_scan is between the opening of its log and its return
Running == pc \in {"reading", "wait", "ack"}

\* the log file of the current invocation
Log == files[log_filename[1]]

\* the whitespace-trimmed non-empty lines of a stream, in order
RECURSIVE TrimmedLines(_)
TrimmedLines(lines) ==
    IF lines = <<>> THEN <<>>
    ELSE (IF Strip(Head(lines)) = <<>> THEN <<>> ELSE <<Strip(Head(lines))>>)
             \o TrimmedLines(Tail(lines))

IsMarker(clean) == ProgressMatch(clean) # None

InSeq(x, seq) == \E i \in 1..Len(seq) : seq[i] = x

Rendered(clean) == \E i \in 1..Len(display) : display[i].text = clean

\* the six rules of the classification, in their fixed order
RuleHolds(k, clean) ==
    CASE k = 1 -> IsMarker(clean)
      [] k = 2 -> PortMatch(clean)
      [] k = 3 -> Contains(clean, "OS details:") \/ Contains(clean, "Service Info:")
      [] k = 4 -> clean[1] = "|"
      [] k = 5 -> Contains(clean, "Stats:")
      [] k = 6 -> TRUE

FirstRule(clean) ==
    CHOOSE k \in 1..6 : RuleHolds(k, clean) /\ \A h \in 1..(k - 1) : ~RuleHolds(h, clean)

RuleStyle(k) ==
    CASE k = 2 -> "port_found" [] k = 3 -> "detail" [] k = 4 -> "script" [] k = 6 -> "dim"

\* what first-match routing renders for a stream
RECURSIVE RoutedDisplay(_)
RoutedDisplay(lines) ==
    IF lines = <<>> THEN <<>>
    ELSE LET clean == Strip(Head(lines))
         IN  (IF clean = <<>> \/ FirstRule(clean) \in {1, 5} THEN <<>>
              ELSE Shown(RuleStyle(FirstRule(clean)), clean))
                 \o RoutedDisplay(Tail(lines))

\* the number of the last marker line of a stream, 0 when it has none
RECURSIVE LastMarker(_)
LastMarker(lines) ==
    IF lines = <<>> THEN 0
    ELSE LET clean == Strip(lines[Len(lines)])
         IN  IF IsMarker(clean) THEN ProgressMatch(clean)[1]
             ELSE LastMarker(SubSeq(lines, 1, Len(lines) - 1))

---------------------------------------------------------------------------
(* C1: while run_scan runs, its log file holds exactly the trimmed         *)
(* non-empty lines read so far, in the order the child wrote them; when it *)
(* finishes, those are all the lines of the stream.  No empty line is      *)
(* logged or rendered.                                                     *)
C1_LogHoldsTrimmedStream ==
    Running =>
        /\ Log = TrimmedLines(consumed)
        /\ pc = "ack" => consumed = emitted /\ Log = TrimmedLines(emitted)
        /\ \A i \in 1..Len(Log) : Log[i] # <<>>
        /\ \A i \in 1..Len(display) : display[i].text # <<>>

\* a finished run: a marker line, then a line that had to be trimmed
C1_Witness ==
    /\ pc = "ack"
    /\ Len(emitted) = 2
    /\ IsMarker(Strip(emitted[1]))
    /\ Strip(emitted[2]) # emitted[2]
    /\ Log = <<Strip(emitted[1]), Strip(emitted[2])>>

(* C2: every non-empty line takes the route of the first rule it matches, *)
(* in the order marker, port, detail, script, noise, default: the display  *)
(* is exactly what first-match routing renders, each line at most once.    *)
C2_FirstMatchRouting ==
    Running => display = RoutedDisplay(consumed)

\* a line that matches the port rule and the noise rule was rendered as a port
C2_Witness ==
    /\ pc = "wait"
    /\ \E i \in 1..Len(consumed) :
          LET clean == Strip(consumed[i])
          IN  /\ clean # <<>>
              /\ RuleHolds(2, clean)
              /\ RuleHolds(5, clean)
              /\ InSeq([style |-> "port_found", text |-> clean], display)

(* C3: a marker line sets the progress to its number, is not rendered and *)
(* is logged; until the final forcing the progress is the number of the    *)
(* last marker line read (0 when none was).                                *)
C3_MarkerSetsProgress ==
    pc \in {"reading", "wait"} =>
        /\ progress = LastMarker(consumed)
        /\ \A i \in 1..Len(consumed) :
              IsMarker(Strip(consumed[i])) =>
                  /\ ~Rendered(Strip(consumed[i]))
                  /\ InSeq(Strip(consumed[i]), Log)

\* two marker lines were read, the second with the smaller number
C3_Witness ==
    /\ pc = "wait"
    /\ Len(consumed) = 2
    /\ IsMarker(Strip(consumed[1]))
    /\ IsMarker(Strip(consumed[2]))
    /\ ProgressMatch(Strip(consumed[2]))[1] < ProgressMatch(Strip(consumed[1]))[1]
    /\ progress = ProgressMatch(Strip(consumed[2]))[1]

---------------------------------------------------------------------------
\* the child of the current invocation has closed its output and exited
ChildGone == pc \in {"reading", "wait"} /\ childState = "exited"

Completed == pc = "ack" /\ progress = Hundred

---------------------------------------------------------------------------
(* C6: when the chosen target fails validation, .last_target keeps the    *)
(* content it had when the menu was shown, no process is launched, no log  *)
(* file is created, and the menu is shown again.                           *)
C6_InvalidTargetChangesNothing ==
    [][/\ pc = "menu" => store' = store
       /\ (pc = "prompt" /\ ~validate_ip(ip')) =>
              /\ store' = store
              /\ launches' = launches
              /\ files' = files
              /\ childState' = childState
              /\ pc' = "menu"]_vars

\* the stored target, taken through 'r', failed validation
C6_Witness ==
    /\ pc = "menu"
    /\ events = <<"invalid_target">>
    /\ store.exists
    /\ ip = Strip(store.content)
    /\ ~validate_ip(ip)

(* C7: a process is launched only in a step whose target passed           *)
(* validation and was saved and whose path lookup succeeded, in that       *)
(* order; a log file appears only with a launch; when the lookup fails     *)
(* run_scan is not entered.                                                *)
C7_LaunchOnlyAfterLookup ==
    [][/\ launches' # launches =>
              /\ pc = "prompt"
              /\ validate_ip(ip')
              /\ store' = save_last_ip(store, ip')
              /\ SubSeq(events', 1, 4) = <<"validated", "saved", "lookup_ok", "launched">>
              /\ command'[1].target = ip'
       /\ DOMAIN files' # DOMAIN files => launches' # launches
       /\ (pc = "prompt" /\ InSeq("lookup_failed", events')) =>
              /\ launches' = launches
              /\ files' = files
              /\ UNCHANGED <<command, log_filename, progress, childState, pipe>>
              /\ pc' = "menu"]_vars

\* a valid target was saved, the lookup failed, the menu is shown again
C7_Witness ==
    /\ pc = "menu"
    /\ events = <<"validated", "saved", "lookup_failed">>
    /\ validate_ip(ip)
    /\ store.content = ip
    /\ launches = <<>>
    /\ files = NoFiles

---------------------------------------------------------------------------
(* C8: the interactive loop ends only on the exit selection 'x'. *)
C8_LoopEndsOnlyOnExit ==
    pc \in {"exited", "crashed"} => (pc = "exited" /\ choice = <<"x">>)

(* C9: the log filenames of any two invocations of run_scan differ: no    *)
(* invocation opens a log that an earlier invocation wrote.                *)
C9_LogNamesNeverCollide ==
    [][(pc = "prompt" /\ pc' = "reading") =>
           log_filename'[1] \notin DOMAIN files]_vars

(* C10: the progress value lies in [0, 100] in every state of run_scan. *)
C10_ProgressInRange ==
    progress >= 0 /\ progress <= Hundred

===========================================================================
